---- MODULE Spec2Model ----
(***************************************************************************)
(* rflogs: discovery of Robot Framework result files (find_robot_files,    *)
(* parse_output_xml) and their upload (upload_files).                      *)
(*                                                                         *)
(* Strings are sequences of one-character strings, so that os.path.join,   *)
(* os.path.normpath, os.path.commonprefix, str.upper and str.endswith are  *)
(* computed character by character as the library computes them.           *)
(***************************************************************************)
EXTENDS Integers, Sequences, FiniteSets, TLC

(***************************************************************************)
(* Bounds of the model.                                                    *)
(***************************************************************************)
\* most elements of a results document when discovery alone is run
MaxEvents == 2
\* most elements of a results document when upload_files is run
MaxUploadEvents == 1
\* number of times discovery is run on the same directory
MaxRuns == 2

(***************************************************************************)
(* String helpers (str methods of Python).                                 *)
(***************************************************************************)
StartsWith(s, p) == Len(s) >= Len(p) /\ SubSeq(s, 1, Len(p)) = p

EndsWith(s, p) == Len(s) >= Len(p) /\ SubSeq(s, Len(s) - Len(p) + 1, Len(s)) = p

\* str.upper on one character (the letters the model's file names use)
UpperChar(c) ==
    CASE c = "n" -> "N"
      [] c = "o" -> "O"
      [] c = "e" -> "E"
      [] c = "l" -> "L"
      [] c = "g" -> "G"
      [] c = "h" -> "H"
      [] c = "t" -> "T"
      [] c = "m" -> "M"
      [] c = "u" -> "U"
      [] c = "p" -> "P"
      [] c = "x" -> "X"
      [] c = "r" -> "R"
      [] c = "s" -> "S"
      [] c = "d" -> "D"
      [] OTHER -> c

Upper(s) == [i \in DOMAIN s |-> UpperChar(s[i])]

\* str.split("/")
RECURSIVE Split(_)
Split(s) ==
    IF \A i \in DOMAIN s : s[i] # "/"
    THEN <<s>>
    ELSE LET i == CHOOSE k \in DOMAIN s : s[k] = "/" /\ \A j \in 1..(k - 1) : s[j] # "/"
         IN  <<SubSeq(s, 1, i - 1)>> \o Split(SubSeq(s, i + 1, Len(s)))

\* "/".join(comps)
RECURSIVE JoinSlash(_)
JoinSlash(comps) ==
    IF comps = <<>> THEN <<>>
    ELSE IF Len(comps) = 1 THEN comps[1]
    ELSE comps[1] \o <<"/">> \o JoinSlash(Tail(comps))

(***************************************************************************)
(* posixpath                                                               *)
(***************************************************************************)
\* os.getcwd() of the process
Cwd == <<"/">>

\* os.path.join(a, b)
PathJoin(a, b) ==
    IF StartsWith(b, <<"/">>) THEN b
    ELSE IF a = <<>> \/ EndsWith(a, <<"/">>) THEN a \o b
    ELSE a \o <<"/">> \o b

\* the loop of os.path.normpath over the components
RECURSIVE NormComps(_, _, _)
NormComps(comps, new_comps, initial_slashes) ==
    IF comps = <<>> THEN new_comps
    ELSE LET comp == Head(comps)
             n == Len(new_comps)
         IN  IF comp = <<>> \/ comp = <<".">>
             THEN NormComps(Tail(comps), new_comps, initial_slashes)
             ELSE IF \/ comp # <<".", ".">>
                     \/ (initial_slashes = 0 /\ n = 0)
                     \/ (n > 0 /\ new_comps[n] = <<".", ".">>)
             THEN NormComps(Tail(comps), Append(new_comps, comp), initial_slashes)
             ELSE IF n > 0
             THEN NormComps(Tail(comps), SubSeq(new_comps, 1, n - 1), initial_slashes)
             ELSE NormComps(Tail(comps), new_comps, initial_slashes)

\* os.path.normpath(path)
NormPath(path) ==
    IF path = <<>> THEN <<".">>
    ELSE LET initial_slashes ==
                 IF ~StartsWith(path, <<"/">>) THEN 0
                 ELSE IF StartsWith(path, <<"/", "/">>) /\ ~StartsWith(path, <<"/", "/", "/">>)
                 THEN 2 ELSE 1
             joined == JoinSlash(NormComps(Split(path), <<>>, initial_slashes))
             res == [i \in 1..initial_slashes |-> "/"] \o joined
         IN  IF res = <<>> THEN <<".">> ELSE res

\* os.path.abspath(path)
AbsPath(path) ==
    IF StartsWith(path, <<"/">>) THEN NormPath(path)
    ELSE NormPath(PathJoin(Cwd, path))

\* os.path.commonprefix([a, b]): the longest common leading run of characters
CommonPrefix(a, b) ==
    LET m == IF Len(a) < Len(b) THEN Len(a) ELSE Len(b)
        k == CHOOSE n \in 0..m :
                 /\ \A i \in 1..n : a[i] = b[i]
                 /\ (n = m \/ a[n + 1] # b[n + 1])
    IN  SubSeq(a, 1, k)

\* the non-empty components of a path
Segments(p) == SelectSeq(Split(p), LAMBDA c : c # <<>>)

\* os.path.basename(p)
BaseName(p) == LET comps == Split(p) IN comps[Len(comps)]

\* os.path.relpath(path, start)
RelPath(path, start) ==
    LET start_list == Segments(AbsPath(start))
        path_list == Segments(AbsPath(path))
        m == IF Len(start_list) < Len(path_list) THEN Len(start_list) ELSE Len(path_list)
        i == CHOOSE n \in 0..m :
                 /\ \A j \in 1..n : start_list[j] = path_list[j]
                 /\ (n = m \/ start_list[n + 1] # path_list[n + 1])
        rel_list == [j \in 1..(Len(start_list) - i) |-> <<".", ".">>]
                        \o SubSeq(path_list, i + 1, Len(path_list))
    IN  IF rel_list = <<>> THEN <<".">> ELSE JoinSlash(rel_list)

(***************************************************************************)
(* File names and the file system of the model.                            *)
(***************************************************************************)
OUTPUT_XML == <<"o", "u", "t", "p", "u", "t", ".", "x", "m", "l">>
LOG_HTML == <<"l", "o", "g", ".", "h", "t", "m", "l">>
REPORT_HTML == <<"r", "e", "p", "o", "r", "t", ".", "h", "t", "m", "l">>
NONE == <<"N", "O", "N", "E">>
GZ == <<".", "g", "z">>

\* the results directory as the command line may name it
Directories == { <<"/", "d">>, <<"d">> }

\* values of --output, --log and --report
OutputOptions == { OUTPUT_XML, NONE }
LogOptions == { LOG_HTML, <<"n", "o", "n", "e">> }
ReportOptions == { REPORT_HTML, <<"N", "o", "n", "e">> }

\* regular files that may or may not exist under the results directory
BaseFiles ==
    { <<"/", "d", "/">> \o OUTPUT_XML,
      <<"/", "d", "/">> \o LOG_HTML,
      <<"/", "d", "/">> \o REPORT_HTML,
      <<"/", "d", "/", "s", ".", "p", "n", "g">>,
      <<"/", "d", "/", "n", "o", "n", "e">> }

\* a file of the results directory whose own name ends in .gz; it may or may
\* not exist when upload_files is called
GzFiles == { <<"/", "d", "/">> \o OUTPUT_XML \o GZ }

\* regular files outside the results directory; they always exist
OutsideFiles ==
    { <<"/", "d", "-", "e", "v", "i", "l", "/", "x">>,
      <<"/", "e", "t", "c", "/", "p", "a", "s", "s", "w", "d">> }

\* directories; they always exist
Dirs == { <<"/">>, <<"/", "d">>, <<"/", "d", "-", "e", "v", "i", "l">>, <<"/", "e", "t", "c">> }

\* os.path.isfile(path) on the file system with regular files fs
IsFile(fs, path) == AbsPath(path) \in fs

\* os.path.exists(path)
Exists(fs, path) == AbsPath(path) \in fs \cup Dirs

(***************************************************************************)
(* The results document, as the stream of events ET.iterparse delivers.    *)
(* An "end" event carries the closed element: its tag, its attributes (a   *)
(* set of <<name, value>> pairs) and its text, given both as plain         *)
(* character data and as the start tags HTMLParser finds in it, each a     *)
(* sequence of <<attribute name, attribute value>> pairs.  A "syntax"      *)
(* event is the point where the stream stops being well-formed XML.        *)
(***************************************************************************)
\* the value HTMLParser gives an attribute written without a value
NoValue == <<"<None>">>

Elem(tag, attrib, plain, tags) ==
    [kind |-> "end", tag |-> tag, attrib |-> attrib, text |-> [plain |-> plain, tags |-> tags]]

\* <msg html="true">&lt;img src="s.png" alt="shot"&gt;&lt;a href="log.html"&gt;</msg>
MsgInside ==
    Elem("msg", {<<"html", "true">>}, "",
         << << <<"src", <<"s", ".", "p", "n", "g">> >>, <<"alt", <<"s">> >> >>,
            << <<"href", LOG_HTML>> >> >>)

\* <msg html="true">&lt;a href="../../etc/passwd"&gt;&lt;img src="../d-evil/x"&gt;
\*                  &lt;img src="missing.png"&gt;&lt;a href="./s.png"&gt;</msg>
MsgOutside ==
    Elem("msg", {<<"html", "true">>}, "",
         << << <<"href", <<".", ".", "/", ".", ".", "/", "e", "t", "c", "/", "p", "a", "s", "s", "w", "d">> >> >>,
            << <<"src", <<".", ".", "/", "d", "-", "e", "v", "i", "l", "/", "x">> >> >>,
            << <<"src", <<"m", ".", "p", "n", "g">> >> >>,
            << <<"href", <<".", "/", "s", ".", "p", "n", "g">> >> >> >>)

\* <msg html="false">&lt;img src="report.html"&gt;</msg>
MsgPlain ==
    Elem("msg", {<<"html", "false">>}, "", << << <<"src", REPORT_HTML>> >> >>)

\* <msg html="true">&lt;a href="output.xml.gz"&gt;</msg>
MsgGz ==
    Elem("msg", {<<"html", "true">>}, "", << << <<"href", OUTPUT_XML \o GZ>> >> >>)

\* <msg html="true">&lt;a href&gt;</msg>
MsgNoValue ==
    Elem("msg", {<<"html", "true">>}, "", << << <<"href", NoValue>> >> >>)

\* <status status="FAIL" start="2024-10-11T22:26:20.295908" elapsed="0.041915"/>
StatusElem ==
    Elem("status", {<<"status", "FAIL">>, <<"start", "2024-10-11T22:26:20.295908">>,
                    <<"elapsed", "0.041915">>}, "", <<>>)

\* <stat pass="1" fail="3" skip="0">All Tests</stat> inside statistics/total
StatElem ==
    Elem("stat", {<<"pass", "1">>, <<"fail", "3">>, <<"skip", "0">>}, "All Tests", <<>>)

SyntaxError == [kind |-> "syntax"]

Elements == { MsgInside, MsgOutside, MsgPlain, MsgNoValue, StatusElem, StatElem }

\* the documents of at most max elements; the stream may stop being well-formed
\* after any of them
Documents(max) ==
    UNION { { d \in [1..n -> Elements] : TRUE } : n \in 0..max }
    \cup UNION { { Append(d, SyntaxError) : d \in [1..n -> Elements] } : n \in 0..max }

\* the documents upload_files is run on: their messages may also reference
\* the .gz file
UploadDocuments(max) ==
    UNION { { d \in [1..n -> Elements \cup {MsgGz}] : TRUE } : n \in 0..max }
    \cup UNION { { Append(d, SyntaxError) : d \in [1..n -> Elements \cup {MsgGz}] } : n \in 0..max }

\* elem.get(name)
Get(elem, name) ==
    IF \E a \in elem.attrib : a[1] = name
    THEN (CHOOSE a \in elem.attrib : a[1] = name)[2]
    ELSE "<None>"

(***************************************************************************)
(* MsgHTMLParser                                                           *)
(***************************************************************************)
\* handle_starttag: the values of the src and href attributes of one tag
HandleStartTag(attrs) ==
    LET hits == SelectSeq(attrs, LAMBDA a : a[1] \in {"src", "href"})
    IN  [i \in DOMAIN hits |-> hits[i][2]]

\* parser.feed(html_content); parser.file_paths
RECURSIVE Feed(_)
Feed(tags) ==
    IF tags = <<>> THEN <<>> ELSE HandleStartTag(Head(tags)) \o Feed(Tail(tags))

(***************************************************************************)
(* parse_output_xml                                                        *)
(***************************************************************************)
\* the path a reference resolves to
Resolve(base_directory, file_path) ==
    AbsPath(NormPath(PathJoin(base_directory, file_path)))

\* the containment test of the path resolver
Contained(resolved_path, base_directory) ==
    CommonPrefix(resolved_path, base_directory) = base_directory

\* the references of one message that are added to additional_files
Admitted(fs, base_directory, file_paths) ==
    { Resolve(base_directory, file_paths[i]) : i \in
        { j \in DOMAIN file_paths :
            /\ Contained(Resolve(base_directory, file_paths[j]), base_directory)
            /\ IsFile(fs, Resolve(base_directory, file_paths[j])) } }

\* Walk with a slip: a syntax error ends the loop as the end of the stream does
RECURSIVE WalkLenient(_, _, _, _)
WalkLenient(fs, events, base_directory, additional_files) ==
    IF events = <<>> \/ Head(events).kind = "syntax"
    THEN [raised |-> "none", value |-> additional_files, statistics |-> "<None>"]
    ELSE LET ev == Head(events)
         IN  IF ev.tag = "msg" /\ Get(ev, "html") = "true"
             THEN LET file_paths == Feed(ev.text.tags)
                  IN  IF \E i \in DOMAIN file_paths : file_paths[i] = NoValue
                      THEN [raised |-> "TypeError", value |-> {}, statistics |-> "<None>"]
                      ELSE WalkLenient(fs, Tail(events), base_directory,
                                       additional_files \cup Admitted(fs, base_directory, file_paths))
             ELSE WalkLenient(fs, Tail(events), base_directory, additional_files)

\* the statistics in the value parse_output_xml returns: it returns the bare
\* set additional_files, so there are none
NoStatistics == "<None>"

\* the loop over the events; the result is what the call returns or raises
RECURSIVE Walk(_, _, _, _)
Walk(fs, events, base_directory, additional_files) ==
    IF events = <<>>
    THEN [raised |-> "none", value |-> additional_files, statistics |-> NoStatistics]
    ELSE LET ev == Head(events)
         IN  IF ev.kind = "syntax"
             THEN [raised |-> "ParseError", value |-> {}, statistics |-> NoStatistics]
             ELSE IF ev.tag = "msg" /\ Get(ev, "html") = "true"
             THEN LET file_paths == Feed(ev.text.tags)
                  IN  IF \E i \in DOMAIN file_paths : file_paths[i] = NoValue
                      THEN [raised |-> "TypeError", value |-> {}, statistics |-> NoStatistics]
                      ELSE Walk(fs, Tail(events), base_directory,
                                additional_files \cup Admitted(fs, base_directory, file_paths))
             ELSE Walk(fs, Tail(events), base_directory, additional_files)

\* parse_output_xml(output_xml_path, base_directory): the file at
\* output_xml_path holds the document doc.  The value returned is the bare
\* set of paths; no statistics are computed or returned.
ParseOutputXml(fs, doc, base_directory) ==
    Walk(fs, doc, AbsPath(base_directory), {})

(***************************************************************************)
(* find_robot_files                                                        *)
(***************************************************************************)
\* Enabled with a slip: the sentinel is compared without upper()
EnabledCaseSensitive(name) == name # NONE

\* the test "name.upper() != NONE" of find_robot_files
Enabled(name) == Upper(name) # NONE

\* list(additional_files): a set has no order, any enumeration may come out
ListOf(S) ==
    { f \in [1..Cardinality(S) -> S] : \A i, j \in 1..Cardinality(S) : f[i] = f[j] => i = j }

\* WellKnown with a slip: the file is listed without asking whether it exists
WellKnownNoExistsCheck(fs, directory, name) ==
    IF Enabled(name) THEN <<PathJoin(directory, name)>> ELSE <<>>

\* the entry of a log or report file: appended if enabled and existing
WellKnown(fs, directory, name) ==
    IF Enabled(name) /\ Exists(fs, PathJoin(directory, name))
    THEN <<PathJoin(directory, name)>>
    ELSE <<>>

\* the block of the results file: its entry and its discovered artifacts.
\* Beside the list (value) an outcome records what the call saw on the way:
\* whether parse_output_xml was called (parsed), the set it returned
\* (additional_files) and the statistics it returned (statistics).
OutputBlock(fs, directory, output, doc) ==
    IF Enabled(output) /\ Exists(fs, PathJoin(directory, output))
    THEN LET r == ParseOutputXml(fs, doc, directory)
         IN  IF r.raised # "none"
             THEN { [raised |-> r.raised, value |-> <<>>, additional_files |-> {},
                     parsed |-> TRUE, statistics |-> r.statistics] }
             ELSE { [raised |-> "none",
                     value |-> <<PathJoin(directory, output)>> \o l,
                     additional_files |-> r.value,
                     parsed |-> TRUE, statistics |-> r.statistics] : l \in ListOf(r.value) }
    ELSE { [raised |-> "none", value |-> <<>>, additional_files |-> {},
            parsed |-> FALSE, statistics |-> NoStatistics] }

\* find_robot_files with a slip: the report is appended before the log
FindRobotFilesReportFirst(fs, directory, output, log, report, doc) ==
    { IF b.raised # "none" THEN b
      ELSE [b EXCEPT !.value = b.value \o WellKnown(fs, directory, report)
                                       \o WellKnown(fs, directory, log)] :
      b \in OutputBlock(fs, directory, output, doc) }

\* find_robot_files(directory, output, log, report): every outcome the call can
\* have (the manifest returned, or the exception raised)
FindRobotFiles(fs, directory, output, log, report, doc) ==
    { IF b.raised # "none" THEN b
      ELSE [b EXCEPT !.value = b.value \o WellKnown(fs, directory, log)
                                       \o WellKnown(fs, directory, report)] :
      b \in OutputBlock(fs, directory, output, doc) }

(***************************************************************************)
(* compress_file                                                           *)
(***************************************************************************)
\* whether compress_file writes a compressed copy: big says that the file is
\* larger than 1 MiB
Compresses(file_path, big) == BaseName(file_path) = OUTPUT_XML /\ big

\* compress_file(file_path): the path of the file to upload
CompressFile(file_path, big) ==
    IF Compresses(file_path, big) THEN file_path \o GZ ELSE file_path

(***************************************************************************)
(* State.                                                                  *)
(***************************************************************************)
VARIABLES
    fs,               \* the regular files that exist (absolute paths)
    directory,        \* argument of the upload subcommand
    output,           \* --output
    log,              \* --log
    report,           \* --report
    doc,              \* content of the results file, when it exists
    pc,               \* position of upload_files: "main", "create_run", "upload", "returned", "raised"
    files_to_upload,  \* the manifest find_robot_files returned
    additional_files, \* the set parse_output_xml returned to find_robot_files
    exc,              \* exception that left upload_files, or "none"
    posts,            \* the requests session.post has sent, in order
    idx,              \* position of the upload loop in files_to_upload
    uploaded_files,   \* len(uploaded_files)
    ret,              \* value returned by upload_files, or "none"
    printed,          \* the messages printed
    fs0,              \* the files that existed when upload_files was called
    history           \* outcomes of successive find_robot_files calls (SpecDiscovery)

vars == <<fs, directory, output, log, report, doc, pc, files_to_upload, additional_files,
          exc, posts, idx, uploaded_files, ret, printed, fs0, history>>

inputs == <<directory, output, log, report, doc>>

Start(documents, files) ==
    /\ fs \in { S \cup OutsideFiles : S \in SUBSET files }
    /\ directory \in Directories
    /\ output \in OutputOptions
    /\ log \in LogOptions
    /\ report \in ReportOptions
    /\ doc \in documents
    /\ pc = "main"
    /\ files_to_upload = <<>>
    /\ additional_files = {}
    /\ exc = "none"
    /\ posts = <<>>
    /\ idx = 0
    /\ uploaded_files = 0
    /\ ret = "none"
    /\ printed = {}
    /\ fs0 = fs
    /\ history = <<>>

\* the upload subcommand is about to call upload_files
Init == Start(UploadDocuments(MaxUploadEvents), BaseFiles \cup GzFiles)

(***************************************************************************)
(* upload_files                                                            *)
(***************************************************************************)
\* lines 69-73: get_session() raises when RFLOGS_API_KEY is not set
NoApiKey ==
    /\ pc = "main"
    /\ pc' = "returned"
    /\ ret' = "False"
    /\ printed' = printed \cup {"RFLOGS_API_KEY environment variable not set"}
    /\ UNCHANGED <<fs, inputs, files_to_upload, additional_files, exc, posts, idx,
                   uploaded_files, fs0, history>>

\* lines 69-105: session obtained, tags processed, find_robot_files called.
\* The tags only fill the value of the "tags" key of the run-creation body
\* (invalid ones are dropped with a message), so the body is kept as its keys.
UploadFilesCall ==
    /\ pc = "main"
    /\ \E r \in FindRobotFiles(fs, directory, output, log, report, doc) :
         /\ additional_files' = r.additional_files
         /\ files_to_upload' = r.value
         /\ exc' = r.raised
         /\ IF r.raised # "none"
            THEN pc' = "raised" /\ UNCHANGED <<ret, printed>>
            ELSE IF r.value = <<>>
            THEN /\ pc' = "returned"
                 /\ ret' = "False"
                 /\ printed' = printed \cup {"Error: No Robot Framework test results found"}
            ELSE pc' = "create_run" /\ UNCHANGED <<ret, printed>>
    /\ UNCHANGED <<fs, inputs, posts, idx, uploaded_files, fs0, history>>

\* lines 107-125: the run-creation request and its answer
CreateRun ==
    /\ pc = "create_run"
    /\ \E status_code \in {200, 500} :
         /\ posts' = Append(posts, [url |-> "/api/runs", json |-> {"tags"},
                                    file |-> <<>>, is_output_file |-> "",
                                    status_code |-> status_code])
         /\ IF status_code # 200
            THEN /\ pc' = "returned"
                 /\ ret' = "False"
                 /\ printed' = printed \cup {"Error creating run"}
                 /\ UNCHANGED idx
            ELSE /\ pc' = "upload"
                 /\ idx' = 1
                 /\ printed' = printed \cup {"Uploading results"}
                 /\ UNCHANGED ret
    /\ UNCHANGED <<fs, inputs, files_to_upload, additional_files, exc, uploaded_files,
                   fs0, history>>

\* lines 127-170: one turn of the loop: compress, upload, remove the copy.
\* os.path.getsize (line 130) raises when an earlier turn removed the file.
UploadFile ==
    /\ pc = "upload"
    /\ idx <= Len(files_to_upload)
    /\ IF ~Exists(fs, files_to_upload[idx])
       THEN /\ pc' = "raised"
            /\ exc' = "FileNotFoundError"
            /\ UNCHANGED <<fs, posts, idx, uploaded_files, printed>>
       ELSE /\ \E status_code \in {200, 500}, big \in BOOLEAN :
                 LET file_path == files_to_upload[idx]
                     file_name == RelPath(file_path, directory)
                     file_to_upload == CompressFile(file_path, big)
                 IN  /\ posts' = Append(posts,
                            [url |-> "/api/runs/{run_id}/upload", json |-> {},
                             file |-> RelPath(file_to_upload, directory),
                             is_output_file |-> IF file_name = output THEN "true" ELSE "false",
                             status_code |-> status_code])
                     /\ uploaded_files' = IF status_code = 200 THEN uploaded_files + 1
                                          ELSE uploaded_files
                     /\ printed' = IF status_code = 200 THEN printed
                                   ELSE printed \cup {"Error uploading"}
                     /\ fs' = IF EndsWith(file_to_upload, GZ)
                              THEN fs \ {AbsPath(file_to_upload)}
                              ELSE fs
            /\ idx' = idx + 1
            /\ UNCHANGED <<pc, exc>>
    /\ UNCHANGED <<inputs, files_to_upload, additional_files, ret, fs0, history>>

\* lines 172-211: the summary and the value returned
Finish ==
    /\ pc = "upload"
    /\ idx > Len(files_to_upload)
    /\ pc' = "returned"
    /\ IF uploaded_files = Len(files_to_upload)
       THEN ret' = "True" /\ UNCHANGED printed
       ELSE ret' = "False" /\ printed' = printed \cup {"Upload failed"}
    /\ UNCHANGED <<fs, inputs, files_to_upload, additional_files, exc, posts, idx,
                   uploaded_files, fs0, history>>

Next == NoApiKey \/ UploadFilesCall \/ CreateRun \/ UploadFile \/ Finish

Spec == Init /\ [][Next]_vars

(***************************************************************************)
(* Discovery run several times on a directory nobody changes.              *)
(***************************************************************************)
Discover ==
    /\ Len(history) < MaxRuns
    /\ \E r \in FindRobotFiles(fs, directory, output, log, report, doc) :
         history' = Append(history, r)
    /\ UNCHANGED <<fs, inputs, pc, files_to_upload, additional_files, exc, posts, idx,
                   uploaded_files, ret, printed, fs0>>

InitDiscovery == Start(Documents(MaxEvents), BaseFiles)

NextDiscovery == Discover

SpecDiscovery == InitDiscovery /\ [][NextDiscovery]_vars

(***************************************************************************)
(* Vocabulary of the properties.                                           *)
(***************************************************************************)
\* the canonical results directory
Base == AbsPath(directory)

\* segment-wise containment: every segment of base leads the segments of p
Inside(p, base) ==
    LET b == Segments(base)
        q == Segments(p)
    IN  Len(q) >= Len(b) /\ SubSeq(q, 1, Len(b)) = b

\* the configured name is the disable sentinel, in any letter case
IsSentinel(name) == Len(name) = 4 /\ \A i \in 1..4 : name[i] \in {NONE[i], <<"n", "o", "n", "e">>[i]}

\* the configured well-known file is enabled and present in the directory
Present(name) ==
    ~IsSentinel(name) /\ (Base \o <<"/">> \o name) \in fs0 \cup Dirs

\* one if the condition holds, else zero
Count(cond) == IF cond THEN 1 ELSE 0

\* the discovery calls that returned a manifest
Returned == { i \in DOMAIN history : history[i].raised = "none" }

\* the document holds an element with this tag
HasTag(tag) == \E i \in DOMAIN doc : doc[i].kind = "end" /\ doc[i].tag = tag

\* the stream is not well-formed XML
Malformed == \E i \in DOMAIN doc : doc[i].kind = "syntax"

\* upload_files got its session (RFLOGS_API_KEY was set) and went on
SessionObtained ==
    pc # "main" /\ "RFLOGS_API_KEY environment variable not set" \notin printed

(***************************************************************************)
(* C1: every path parse_output_xml adds to the artifact set lies inside    *)
(* the base directory and names an existing regular file; references that  *)
(* resolve outside it or to no file are left out.                          *)
(***************************************************************************)
C1_OnlyInsideExisting ==
    \A i \in Returned : \A p \in history[i].additional_files :
        Inside(p, Base) /\ p \in fs

(***************************************************************************)
(* C2: a reference resolving into a sibling directory whose path merely    *)
(* has the base directory's string as a prefix (/d-evil/x for base /d) is  *)
(* rejected: containment is decided on segments.                           *)
(***************************************************************************)
C2_SiblingPrefixRejected ==
    \A i \in Returned : \A p \in history[i].additional_files :
        StartsWith(p, Base) => Inside(p, Base)

(***************************************************************************)
(* C3: the manifest is the results file entry (if enabled and present),    *)
(* then exactly the discovered artifacts, then the log entry (if enabled   *)
(* and present), then the report entry (if enabled and present).           *)
(***************************************************************************)
C3_CategoryOrder ==
    \A i \in Returned :
        LET m == history[i].value
            arts == history[i].additional_files
            o == Count(Present(output))
            a == Cardinality(arts)
            l == Count(Present(log))
        IN  /\ Len(m) = o + a + l + Count(Present(report))
            /\ (o = 0 => a = 0)
            /\ (o = 1 => m[1] = PathJoin(directory, output))
            /\ { m[k] : k \in (o + 1)..(o + a) } = arts
            /\ (l = 1 => m[o + a + 1] = PathJoin(directory, log))
            /\ (Present(report) => m[o + a + l + 1] = PathJoin(directory, report))

\* a manifest holding all four categories, two artifacts among them
C3_Witness ==
    \E i \in Returned :
        /\ Present(output) /\ Present(log) /\ Present(report)
        /\ Cardinality(history[i].additional_files) >= 2
        /\ Len(history[i].value) >= 5

(***************************************************************************)
(* C4: with log and report set to the sentinel (any letter case) and the   *)
(* results file present, the manifest is exactly the results file entry    *)
(* followed by its discovered artifacts, whatever else exists on disk; and *)
(* discovery with the results file disabled or missing raises nothing.     *)
(***************************************************************************)
C4_SentinelSkips ==
    \A i \in DOMAIN history :
        /\ (IsSentinel(log) /\ IsSentinel(report) /\ Present(output) /\ i \in Returned) =>
              LET m == history[i].value
              IN  /\ Len(m) = 1 + Cardinality(history[i].additional_files)
                  /\ m[1] = PathJoin(directory, output)
                  /\ { m[k] : k \in 2..Len(m) } = history[i].additional_files
        /\ ~Present(output) =>
              /\ history[i].raised = "none"
              /\ ~history[i].parsed
              /\ \A k \in DOMAIN history[i].value :
                     history[i].value[k] \in {PathJoin(directory, log), PathJoin(directory, report)}

\* log and report disabled in lower and mixed case while log.html, report.html
\* and a file called none exist, and an artifact was discovered
C4_Witness ==
    \E i \in Returned :
        /\ IsSentinel(log) /\ log # NONE /\ IsSentinel(report) /\ report # NONE
        /\ Present(output)
        /\ {Base \o <<"/">> \o LOG_HTML, Base \o <<"/">> \o REPORT_HTML, Base \o <<"/">> \o log}
               \subseteq fs
        /\ history[i].additional_files # {}

(***************************************************************************)
(* C5: when none of the three well-known files is present and enabled,     *)
(* upload_files reports that no results were found, returns False and      *)
(* sends no request; nothing is raised.                                    *)
(***************************************************************************)
C5_NothingToDo ==
    (SessionObtained /\ ~Present(output) /\ ~Present(log) /\ ~Present(report)) =>
        /\ pc = "returned"
        /\ ret = "False"
        /\ exc = "none"
        /\ files_to_upload = <<>>
        /\ printed = {"Error: No Robot Framework test results found"}
        /\ posts = <<>>

\* nothing to do although files exist: they are disabled or not the configured ones
C5_Witness ==
    /\ SessionObtained /\ ~Present(output) /\ ~Present(log) /\ ~Present(report)
    /\ ret = "False"
    /\ fs \cap BaseFiles # {}

(***************************************************************************)
(* C6: the statistics parse_output_xml returns satisfy total_tests =       *)
(* passed + failed + skipped when an All Tests stat was present, and       *)
(* verdict = "fail" exactly if failed > 0, else "pass".                    *)
(***************************************************************************)
C6_TotalsAndVerdict ==
    \A i \in Returned : history[i].parsed =>
        LET st == history[i].statistics
        IN  /\ st # NoStatistics
            /\ (HasTag("stat") => st.total_tests = st.passed + st.failed + st.skipped)
            /\ (st.verdict = "fail" <=> st.failed > 0)
            /\ st.verdict \in {"pass", "fail"}

(***************************************************************************)
(* C7: with a status element carrying start in the document, start_time is *)
(* the start of the last such element and end_time is set: it is that      *)
(* start plus the elapsed seconds of the same element (times are kept as   *)
(* written in the document, end_time as the pair of start and elapsed).    *)
(***************************************************************************)
C7_StartAndEnd ==
    \A i \in Returned : (history[i].parsed /\ HasTag("status")) =>
        LET st == history[i].statistics
            last == CHOOSE k \in DOMAIN doc :
                        /\ doc[k].kind = "end" /\ doc[k].tag = "status"
                        /\ \A j \in (k + 1)..Len(doc) : ~(doc[j].kind = "end" /\ doc[j].tag = "status")
        IN  /\ st # NoStatistics
            /\ st.start_time = Get(doc[last], "start")
            /\ st.end_time = [start |-> Get(doc[last], "start"),
                               plus |-> Get(doc[last], "elapsed")]

(***************************************************************************)
(* C8: for a document with no status and no stat element, the empty one    *)
(* included, parse_output_xml returns zero statistics with verdict "pass", *)
(* no start_time and no end_time, and an empty artifact set.               *)
(***************************************************************************)
C8_EmptyDefaults ==
    \A i \in Returned : (history[i].parsed /\ ~HasTag("status") /\ ~HasTag("stat")) =>
        /\ history[i].statistics # NoStatistics
        /\ history[i].statistics =
               [total_tests |-> 0, passed |-> 0, failed |-> 0, skipped |-> 0,
                verdict |-> "pass", start_time |-> "<None>", end_time |-> "<None>"]
        /\ history[i].additional_files = {}

(***************************************************************************)
(* C9: when the results file exists (and is enabled) but its stream is not *)
(* well-formed, the error leaves parse_output_xml, find_robot_files and    *)
(* upload_files: no manifest, no artifact set, no request, no return value.*)
(***************************************************************************)
C9_MalformedFailsWhole ==
    (SessionObtained /\ Present(output) /\ Malformed) =>
        /\ pc = "raised"
        /\ exc \in {"ParseError", "TypeError"}
        /\ (~HasTag("msg") => exc = "ParseError")
        /\ files_to_upload = <<>>
        /\ additional_files = {}
        /\ posts = <<>>
        /\ ret = "none"
        /\ fs = fs0

\* the stream breaks after a message whose references had already been resolved
\* and admitted, with log and report waiting to be listed
C9_Witness ==
    /\ SessionObtained /\ Present(output) /\ Present(log) /\ Present(report)
    /\ Len(doc) = 2 /\ doc[1] = MsgInside /\ doc[2] = SyntaxError
    /\ Admitted(fs, Base, Feed(doc[1].text.tags)) # {}
    /\ exc = "ParseError"

(***************************************************************************)
(* C10: two discovery runs on the unchanged directory with the same        *)
(* configuration give the same manifest, entry by entry, and the same      *)
(* statistics.                                                             *)
(***************************************************************************)
C10_SameTwice ==
    Len(history) >= 2 =>
        /\ history[1].value = history[2].value
        /\ history[1].statistics = history[2].statistics
        /\ history[1].raised = history[2].raised

(***************************************************************************)
(* C11: in a successful upload_files call the run-creation request comes   *)
(* first, its JSON body holds the keys start_time and end_time, and it is  *)
(* followed by exactly one upload request per manifest entry.              *)
(***************************************************************************)
C11_RunCreationFirst ==
    ret = "True" =>
        /\ Len(posts) = 1 + Len(files_to_upload)
        /\ posts[1].url = "/api/runs"
        /\ {"start_time", "end_time"} \subseteq posts[1].json
        /\ \A k \in 2..Len(posts) : posts[k].url = "/api/runs/{run_id}/upload"

(***************************************************************************)
(* C12: once the run is created for a non-empty manifest, upload_files     *)
(* attempts every manifest entry in manifest order, also after a failed    *)
(* upload, and returns True exactly if every upload answered 200; if run   *)
(* creation does not answer 200 it returns False and uploads nothing.      *)
(***************************************************************************)
C12_UploadsAll ==
    (posts # <<>> /\ pc # "upload") =>
        IF posts[1].status_code # 200
        THEN pc = "returned" /\ ret = "False" /\ Len(posts) = 1
        ELSE /\ pc = "returned"
             /\ Len(posts) = 1 + Len(files_to_upload)
             /\ \A k \in DOMAIN files_to_upload :
                    posts[k + 1].file \in
                        { RelPath(files_to_upload[k], directory),
                          RelPath(files_to_upload[k] \o GZ, directory) }
             /\ (ret = "True" <=> \A k \in 2..Len(posts) : posts[k].status_code = 200)
             /\ ret \in {"True", "False"}

(***************************************************************************)
(* C13: after upload_files has returned, every file that existed before    *)
(* the call still exists, one whose own name ends in .gz included, and no  *)
(* compressed copy made during the call is left.                           *)
(***************************************************************************)
C13_OnlyOwnCopiesRemoved ==
    pc = "returned" => (fs0 \subseteq fs /\ fs \subseteq fs0)

(***************************************************************************)
(* C14: the manifest find_robot_files returns never holds the same path    *)
(* twice, also when an html message references the log, the report or the  *)
(* results file itself.                                                    *)
(***************************************************************************)
C14_NoDuplicates ==
    \A i \in Returned : \A j, k \in DOMAIN history[i].value :
        history[i].value[j] = history[i].value[k] => j = k

====
